---- MODULE Spec2Model ----
(***************************************************************************)
(* A model of the `occupied` crate (src/src/lib.rs): proof-carrying        *)
(* references to an Option<T> that is known to be Some (Occupied) or None  *)
(* (Vacant), the Entry union over both, and the OptionExt convenience      *)
(* methods.                                                                *)
(*                                                                         *)
(* An Option<T> is modelled as a number: None is 0, Some(v) is v in        *)
(* 1..MaxVal.  A handle is a record naming the slot it borrows and its     *)
(* type.  Rust's borrow rules appear as guards: an operation that takes    *)
(* `&mut Option<T>` needs the slot to be borrowed by no handle, an         *)
(* operation that takes `self` removes the handle it is called on.  The    *)
(* plain reference into_inner / into_mut give back is as good as the       *)
(* owner's access: stores through it are the Store action.                 *)
(***************************************************************************)
EXTENDS Integers, Sequences, FiniteSets, TLC

\* ---------------------------------------------------------------- bounds
NSlots == 2
MaxVal == 2

\* try_unwrap_all takes `&mut [Option<T>; 4]`
NOpts == 4

Slots == 1..NSlots
Values == 1..MaxVal
None == 0
Opt == {None} \cup Values

\* The closures handed to and_modify: the stores of a constant and the
\* increment (wrapping inside the value range).
Fns == {[v \in Values |-> c] : c \in Values} \cup {[v \in Values |-> (v % MaxVal) + 1]}

\* What undefined behaviour may leave behind: anything, when the unchecked
\* operation meets the state it assumed away; otherwise nothing is drawn.
GarbageIfNone(o) == IF o = None THEN Opt ELSE {None}
GarbageIfSome(o) == IF o # None THEN Opt ELSE {None}

VARIABLES
    slots,      \* slots[s]: the Option<T> the caller owns
    handles,    \* live Occupied / Vacant / Entry values
    last,       \* the last library call: what it was given and what it returned
    chain,      \* which two-call sequence on one slot the last call completed
    tua,        \* the activation of try_unwrap_all, if any
    fault       \* the debug_assert!s that failed and the unsafe contracts broken

vars == <<slots, handles, last, chain, tua, fault>>

\* ------------------------------------------------- core::option::Option
is_some(o) == o # None
is_none(o) == o = None

\* Option::take: leaves None behind, returns what was there.
Option_take(o) == [opt |-> None, item |-> o]

\* Option::unwrap_unchecked: undefined behaviour on None; `u` is then whatever
\* the build happens to produce.
unwrap_unchecked(o, u) ==
    IF is_some(o) THEN [val |-> o, fault |-> {}]
                  ELSE [val |-> u, fault |-> {"unwrap_unchecked"}]

\* ------------------------------------------------ mod internals (63-220)
Handle(s, k) == [slot |-> s, kind |-> k]

\* Occupied::new_unchecked: debug_assert!(option.is_some()); Self { option }
Occupied_new_unchecked(o) ==
    [kind |-> "Occupied",
     fault |-> IF is_some(o) THEN {} ELSE {"Occupied::new_unchecked"}]

\* Vacant::new_unchecked: debug_assert!(option.is_none()); Self { option }
Vacant_new_unchecked(o) ==
    [kind |-> "Vacant",
     fault |-> IF is_none(o) THEN {} ELSE {"Vacant::new_unchecked"}]

\* Occupied::get: debug_assert!(is_some); as_ref().unwrap_unchecked()
Occupied_get(o, u) ==
    LET r == unwrap_unchecked(o, u)
    IN  [val |-> r.val,
         fault |-> r.fault \cup (IF is_some(o) THEN {} ELSE {"Occupied::get"})]

\* (variant: the reference returned is to a copy of the value)
Occupied_get_mut_copy(o, w, u) ==
    LET r == unwrap_unchecked(o, u)
    IN  [opt |-> IF is_some(o) THEN o ELSE u,
         fault |-> r.fault \cup (IF is_some(o) THEN {} ELSE {"Occupied::get_mut"})]

\* Occupied::get_mut followed by a store of w through the returned &mut T.
Occupied_get_mut(o, w, u) ==
    LET r == unwrap_unchecked(o, u)
    IN  [opt |-> IF is_some(o) THEN w ELSE u,
         fault |-> r.fault \cup (IF is_some(o) THEN {} ELSE {"Occupied::get_mut"})]

\* ------------------------------------------------------ examine (448-454)
\* (variant: one arm for every option)
examine_always_occupied(o) ==
    [kind |-> "EntryOccupied", fault |-> Occupied_new_unchecked(o).fault]

examine(o) ==
    IF is_some(o)
    THEN [kind |-> "EntryOccupied", fault |-> Occupied_new_unchecked(o).fault]
    ELSE [kind |-> "EntryVacant", fault |-> Vacant_new_unchecked(o).fault]

\* ------------------------------------------- impl Occupied (224-311)
\* Occupied::new: match examine(option) { Occupied(o) => Some(o), Vacant(_) => None }
Occupied_new(o) ==
    LET e == examine(o)
    IN  [kind |-> IF e.kind = "EntryOccupied" THEN "Occupied" ELSE "None",
         fault |-> e.fault]

\* Occupied::into_mut: into_inner, debug_assert!, as_mut().unwrap_unchecked()
Occupied_into_mut(o, u) ==
    [fault |-> unwrap_unchecked(o, u).fault
                 \cup (IF is_some(o) THEN {} ELSE {"Occupied::into_mut"})]

\* Occupied::into_mut followed by a store of w through the returned &'a mut T.
Occupied_into_mut_store(o, w, u) ==
    [opt |-> IF is_some(o) THEN w ELSE u,
     fault |-> Occupied_into_mut(o, u).fault]

\* (variant: the value is read out and the slot keeps it)
Occupied_take_keeps(o, u) ==
    LET r == unwrap_unchecked(o, u)
    IN  [opt |-> o, item |-> r.val,
         fault |-> r.fault \cup (IF is_some(o) THEN {} ELSE {"Occupied::take"})]

\* Occupied::take: into_inner, debug_assert!, option.take().unwrap_unchecked()
Occupied_take(o, u) ==
    LET t == Option_take(o)
        r == unwrap_unchecked(t.item, u)
    IN  [opt |-> t.opt, item |-> r.val,
         fault |-> r.fault \cup (IF is_some(o) THEN {} ELSE {"Occupied::take"})]

\* (variant: the value is read out and the slot keeps it)
Occupied_extract_keeps(o, u) ==
    LET r == unwrap_unchecked(o, u)
        v == Vacant_new_unchecked(o)
    IN  [opt |-> o, item |-> r.val, kind |-> v.kind,
         fault |-> r.fault \cup v.fault
                     \cup (IF is_some(o) THEN {} ELSE {"Occupied::extract"})]

\* (variant: the option is taken first and the item read from what is left)
Occupied_extract_reads_late(o, u) ==
    LET t == Option_take(o)
        r == unwrap_unchecked(t.opt, u)
        v == Vacant_new_unchecked(t.opt)
    IN  [opt |-> t.opt, item |-> r.val, kind |-> v.kind,
         fault |-> r.fault \cup v.fault]

\* Occupied::extract: as take, then Vacant::new_unchecked(option)
Occupied_extract(o, u) ==
    LET t == Option_take(o)
        r == unwrap_unchecked(t.item, u)
        v == Vacant_new_unchecked(t.opt)
    IN  [opt |-> t.opt, item |-> r.val, kind |-> v.kind,
         fault |-> r.fault \cup v.fault
                     \cup (IF is_some(o) THEN {} ELSE {"Occupied::extract"})]

\* impl AsRef / AsMut for Occupied
as_ref(o, u) == Occupied_get(o, u)
as_mut(o, w, u) == Occupied_get_mut(o, w, u)

\* --------------------------------------------- impl Vacant (313-358)
\* (variant: the match arms exchanged)
Vacant_new_swapped(o) ==
    LET e == examine(o)
    IN  [kind |-> IF e.kind = "EntryOccupied" THEN "Vacant" ELSE "None",
         fault |-> e.fault]

\* Vacant::new: match examine(option) { Vacant(v) => Some(v), Occupied(_) => None }
Vacant_new(o) ==
    LET e == examine(o)
    IN  [kind |-> IF e.kind = "EntryVacant" THEN "Vacant" ELSE "None",
         fault |-> e.fault]

\* (variant: the ptr::write left out)
Vacant_insert_no_write(o, item, u) ==
    IF is_some(o)
    THEN [opt |-> u, kind |-> "Occupied",
          fault |-> {"Vacant::insert", "unreachable_unchecked"}]
    ELSE LET n == Occupied_new_unchecked(o)
         IN  [opt |-> o, kind |-> n.kind, fault |-> n.fault]

\* Vacant::insert: debug_assert!(is_none); match *option { Some(_) =>
\* unreachable_unchecked(), None => { ptr::write(option, Some(item));
\* Occupied::new_unchecked(option) } }.  Reaching the Some(_) arm is undefined
\* behaviour: the slot then ends up as whatever `u` is.
Vacant_insert(o, item, u) ==
    IF is_some(o)
    THEN [opt |-> u, kind |-> "Occupied",
          fault |-> {"Vacant::insert", "unreachable_unchecked"}]
    ELSE LET n == Occupied_new_unchecked(item)
         IN  [opt |-> item, kind |-> n.kind, fault |-> n.fault]

\* Option::insert, the checked store Vacant::insert is compared with in its
\* documentation: the old contents are dropped, the item is stored.
Option_insert(o, item) == [opt |-> item, dropped |-> o]

\* ---------------------------------------------- impl Entry (373-440)
\* (variant: f is given a copy of the value)
Entry_and_modify_copy(k, o, f, u) ==
    [opt |-> o, kind |-> k, calls |-> IF k = "EntryOccupied" THEN 1 ELSE 0,
     fault |-> {}]

\* Entry::and_modify: if let Occupied(ref mut occupied) = self { f(occupied.as_mut()) }
Entry_and_modify(k, o, f, u) ==
    IF k = "EntryOccupied"
    THEN LET m == as_mut(o, IF is_some(o) THEN f[o] ELSE u, u)
         IN  [opt |-> m.opt, kind |-> k, calls |-> 1, fault |-> m.fault]
    ELSE [opt |-> o, kind |-> k, calls |-> 0, fault |-> {}]

\* (variant: the default is evaluated before the match)
Entry_or_insert_with_eager(k, o, d, u) ==
    IF k = "EntryOccupied"
    THEN [opt |-> o, kind |-> "Occupied", calls |-> 1, fault |-> {}]
    ELSE LET i == Vacant_insert(o, d, u)
         IN  [opt |-> i.opt, kind |-> i.kind, calls |-> 1, fault |-> i.fault]

\* Entry::or_insert_with: Occupied(o) => o, Vacant(v) => v.insert(default());
\* d is what the closure returns, calls counts its invocations.
Entry_or_insert_with(k, o, d, u) ==
    IF k = "EntryOccupied"
    THEN [opt |-> o, kind |-> "Occupied", calls |-> 0, fault |-> {}]
    ELSE LET i == Vacant_insert(o, d, u)
         IN  [opt |-> i.opt, kind |-> i.kind, calls |-> 1, fault |-> i.fault]

\* (variant: the default is passed on as an item to store, whatever the entry)
Entry_or_insert_stores(k, o, d, u) ==
    [opt |-> d, kind |-> "Occupied", calls |-> 1, fault |-> {}]

\* Entry::or_insert: self.or_insert_with(|| default)
Entry_or_insert(k, o, d, u) == Entry_or_insert_with(k, o, d, u)

\* (variant: the item is copied out instead of taken)
Entry_remove_keeps(k, o) ==
    LET v == Vacant_new_unchecked(o)
    IN  [opt |-> o, item |-> o, kind |-> v.kind, fault |-> v.fault]

\* (variant: the result of opt.take() is thrown away)
Entry_remove_drops_item(k, o) ==
    LET t == Option_take(o)
        v == Vacant_new_unchecked(t.opt)
    IN  [opt |-> t.opt, item |-> None, kind |-> v.kind, fault |-> v.fault]

\* Entry::remove: opt = into_inner of either variant; item = opt.take();
\* (item, Vacant::new_unchecked(opt))
Entry_remove(k, o) ==
    LET t == Option_take(o)
        v == Vacant_new_unchecked(t.opt)
    IN  [opt |-> t.opt, item |-> t.item, kind |-> v.kind, fault |-> v.fault]

\* ------------------------------------- impl OptionExt for Option (507-540)
peek_some(o) == Occupied_new(o)
peek_empty(o) == Vacant_new(o)
entry(o) == examine(o)

\* (variant: the store happens only into an empty option)
emplace_if_empty(o, item) ==
    LET w == IF is_none(o) THEN item ELSE o
        n == Occupied_new_unchecked(w)
    IN  [opt |-> w, kind |-> n.kind, fault |-> n.fault]

\* emplace: *self = Some(item); Occupied::new_unchecked(self)
emplace(o, item) ==
    LET n == Occupied_new_unchecked(item)
    IN  [opt |-> item, kind |-> n.kind, fault |-> n.fault]

\* (variant: the is_none test left out)
get_or_emplace_with_always(o, d) ==
    LET n == Occupied_new_unchecked(d)
    IN  [opt |-> d, kind |-> n.kind, calls |-> 1, fault |-> n.fault]

\* (variant: the store into the empty option left out)
get_or_emplace_with_no_store(o, d) ==
    LET n == Occupied_new_unchecked(o)
    IN  [opt |-> o, kind |-> n.kind, calls |-> IF is_none(o) THEN 1 ELSE 0,
         fault |-> n.fault]

\* get_or_emplace_with: if self.is_none() { *self = Some(item()) };
\* Occupied::new_unchecked(self)
get_or_emplace_with(o, d) ==
    LET w == IF is_none(o) THEN d ELSE o
        n == Occupied_new_unchecked(w)
    IN  [opt |-> w, kind |-> n.kind, calls |-> IF is_none(o) THEN 1 ELSE 0,
         fault |-> n.fault]

\* get_or_emplace: self.get_or_emplace_with(|| item)
get_or_emplace(o, item) == get_or_emplace_with(o, item)

\* ------------------------------------------------------------ bookkeeping
Free(s) == \A h \in handles : h.slot # s

Idle == tua.pc = "idle"

\* The record of one call: the method, the slot, the handle type it was called on
\* (self), the value and the closure passed, the slot's contents before the call
\* (pre), the value returned (None when none), the handle type returned (kind)
\* and how often the closure passed was invoked (calls).
NoFn == [v \in Values |-> v]

Call(op, s, arg, pre, ret, kind, calls) ==
    [op |-> op, slot |-> s, self |-> "-", arg |-> arg, fn |-> NoFn, pre |-> pre,
     ret |-> ret, kind |-> kind, calls |-> calls]

On(h, rec) == [rec EXCEPT !.self = h.kind]

NoCall == Call("none", 1, None, None, None, "-", 0)

\* The two-call sequences on one slot that are followed: which one the call
\* `rec` completes after the call `prev`, with what the first call was given
\* and found.
NoChain == [seq |-> "none", arg |-> None, pre |-> None]

ChainOf(prev, rec) ==
    LET seq == IF prev.slot # rec.slot THEN "none"
               ELSE IF prev.op = "Vacant::insert" /\ rec.op = "Occupied::take"
                    THEN "insert_take"
               ELSE IF prev.op = "Occupied::extract" /\ rec.op = "Vacant::insert"
                    THEN "extract_insert"
               ELSE IF prev.op = "get_or_emplace" /\ rec.op = "get_or_emplace"
                    THEN "get_or_emplace_twice"
               ELSE IF prev.op = "Occupied::get_mut" /\ rec.op = "Occupied::get"
                    THEN "get_mut_get"
               ELSE IF prev.op = "Occupied::get_mut" /\ rec.op = "Occupied::take"
                    THEN "get_mut_take"
               ELSE "none"
    IN  IF seq = "none" THEN NoChain
        ELSE [seq |-> seq, arg |-> prev.arg, pre |-> prev.pre]

Log(rec) == /\ last' = rec
            /\ chain' = ChainOf(last, rec)

TuaIdle == [pc |-> "idle", i |-> 1, snap |-> <<>>, out |-> <<>>, ok |-> FALSE]

Init ==
    /\ slots \in [Slots -> Opt]
    /\ handles = {}
    /\ last = NoCall
    /\ chain = NoChain
    /\ tua = TuaIdle
    /\ fault = {}

\* ------------------------------------------------------------- operations
Put(s, o) == [slots EXCEPT ![s] = o]
\* (variant: the method borrows self instead of consuming it)
Returned_keeps(gone, s, k) ==
    handles \cup (IF k = "None" THEN {} ELSE {Handle(s, k)})

\* the handle set after a call that consumed `gone` and returned a handle of kind k
Returned(gone, s, k) ==
    (handles \ gone) \cup (IF k = "None" THEN {} ELSE {Handle(s, k)})

\* examine(&mut opt) / opt.entry()
Examine(s) ==
    /\ Idle /\ Free(s)
    /\ \E r \in {examine(slots[s]), entry(slots[s])} :
           /\ handles' = Returned({}, s, r.kind)
           /\ fault' = fault \cup r.fault
           /\ Log(Call("examine", s, None, slots[s], None, r.kind, 0))
    /\ UNCHANGED <<slots, tua>>

\* Occupied::new(&mut opt) and opt.peek_some()
PeekSome(s) ==
    /\ Idle /\ Free(s)
    /\ LET r == peek_some(slots[s])
       IN  /\ handles' = Returned({}, s, r.kind)
           /\ fault' = fault \cup r.fault
           /\ Log(Call("peek_some", s, None, slots[s], None, r.kind, 0))
    /\ UNCHANGED <<slots, tua>>

\* Vacant::new(&mut opt) and opt.peek_empty()
PeekEmpty(s) ==
    /\ Idle /\ Free(s)
    /\ LET r == peek_empty(slots[s])
       IN  /\ handles' = Returned({}, s, r.kind)
           /\ fault' = fault \cup r.fault
           /\ Log(Call("peek_empty", s, None, slots[s], None, r.kind, 0))
    /\ UNCHANGED <<slots, tua>>

\* match on an Entry (pub enum, 364-371): the handle inside comes out
MatchEntry(h) ==
    /\ Idle /\ h.kind \in {"EntryOccupied", "EntryVacant"}
    /\ handles' = Returned({h}, h.slot,
                           IF h.kind = "EntryOccupied" THEN "Occupied" ELSE "Vacant")
    /\ UNCHANGED <<slots, last, chain, tua, fault>>

\* occupied.get() / occupied.as_ref()
Get(h, u) ==
    /\ Idle /\ h.kind = "Occupied"
    /\ \E r \in {Occupied_get(slots[h.slot], u), as_ref(slots[h.slot], u)} :
       LET s == h.slot
       IN  /\ fault' = fault \cup r.fault
           /\ Log(On(h, Call("Occupied::get", s, None, slots[s], r.val, "-", 0)))
    /\ UNCHANGED <<slots, handles, tua>>

\* *occupied.get_mut() = w / *occupied.as_mut() = w
GetMut(h, w, u) ==
    /\ Idle /\ h.kind = "Occupied"
    /\ \E r \in {Occupied_get_mut(slots[h.slot], w, u), as_mut(slots[h.slot], w, u)} :
       LET s == h.slot
       IN  /\ slots' = Put(s, r.opt)
           /\ fault' = fault \cup r.fault
           /\ Log(On(h, Call("Occupied::get_mut", s, w, slots[s], None, "-", 0)))
    /\ UNCHANGED <<handles, tua>>

\* occupied.into_inner() / vacant.into_inner() / entry.into_inner():
\* the handle is gone, a plain &mut Option<T> remains
IntoInner(h) ==
    /\ Idle
    /\ handles' = handles \ {h}
    /\ Log(On(h, Call(IF h.kind = "Occupied" THEN "Occupied::into_inner"
                ELSE IF h.kind = "Vacant" THEN "Vacant::into_inner"
                ELSE "Entry::into_inner",
                h.slot, None, slots[h.slot], None, "&mut Option", 0)))
    /\ UNCHANGED <<slots, tua, fault>>

\* occupied.into_mut(): the handle is gone, a plain &mut T remains
IntoMut(h, u) ==
    /\ Idle /\ h.kind = "Occupied"
    /\ LET s == h.slot
           r == Occupied_into_mut(slots[s], u)
       IN  /\ handles' = handles \ {h}
           /\ fault' = fault \cup r.fault
           /\ Log(On(h, Call("Occupied::into_mut", s, None, slots[s], None, "&mut T", 0)))
    /\ UNCHANGED <<slots, tua>>

\* *occupied.into_mut() = w
IntoMutStore(h, w, u) ==
    /\ Idle /\ h.kind = "Occupied"
    /\ LET s == h.slot
           r == Occupied_into_mut_store(slots[s], w, u)
       IN  /\ slots' = Put(s, r.opt)
           /\ handles' = handles \ {h}
           /\ fault' = fault \cup r.fault
           /\ Log(On(h, Call("Occupied::into_mut", s, w, slots[s], None, "&mut T", 0)))
    /\ UNCHANGED tua

\* occupied.take()
Take(h, u) ==
    /\ Idle /\ h.kind = "Occupied"
    /\ LET s == h.slot
           r == Occupied_take(slots[s], u)
       IN  /\ slots' = Put(s, r.opt)
           /\ handles' = handles \ {h}
           /\ fault' = fault \cup r.fault
           /\ Log(On(h, Call("Occupied::take", s, None, slots[s], r.item, "-", 0)))
    /\ UNCHANGED tua

\* occupied.extract()
Extract(h, u) ==
    /\ Idle /\ h.kind = "Occupied"
    /\ LET s == h.slot
           r == Occupied_extract(slots[s], u)
       IN  /\ slots' = Put(s, r.opt)
           /\ handles' = Returned({h}, s, r.kind)
           /\ fault' = fault \cup r.fault
           /\ Log(On(h, Call("Occupied::extract", s, None, slots[s], r.item, r.kind, 0)))
    /\ UNCHANGED tua

\* vacant.insert(item)
Insert(h, item, u) ==
    /\ Idle /\ h.kind = "Vacant"
    /\ LET s == h.slot
           r == Vacant_insert(slots[s], item, u)
       IN  /\ slots' = Put(s, r.opt)
           /\ handles' = Returned({h}, s, r.kind)
           /\ fault' = fault \cup r.fault
           /\ Log(On(h, Call("Vacant::insert", s, item, slots[s], None, r.kind, 0)))
    /\ UNCHANGED tua

\* entry.and_modify(f)
AndModify(h, f, u) ==
    /\ Idle /\ h.kind \in {"EntryOccupied", "EntryVacant"}
    /\ LET s == h.slot
           r == Entry_and_modify(h.kind, slots[s], f, u)
       IN  /\ slots' = Put(s, r.opt)
           /\ handles' = Returned({h}, s, r.kind)
           /\ fault' = fault \cup r.fault
           /\ Log([On(h, Call("Entry::and_modify", s, None, slots[s], None, r.kind, r.calls))
                  EXCEPT !.fn = f])
    /\ UNCHANGED tua

\* entry.or_insert(default)
OrInsert(h, d, u) ==
    /\ Idle /\ h.kind \in {"EntryOccupied", "EntryVacant"}
    /\ LET s == h.slot
           r == Entry_or_insert(h.kind, slots[s], d, u)
       IN  /\ slots' = Put(s, r.opt)
           /\ handles' = Returned({h}, s, r.kind)
           /\ fault' = fault \cup r.fault
           /\ Log(On(h, Call("Entry::or_insert", s, d, slots[s], None, r.kind, r.calls)))
    /\ UNCHANGED tua

\* entry.or_insert_with(|| d)
OrInsertWith(h, d, u) ==
    /\ Idle /\ h.kind \in {"EntryOccupied", "EntryVacant"}
    /\ LET s == h.slot
           r == Entry_or_insert_with(h.kind, slots[s], d, u)
       IN  /\ slots' = Put(s, r.opt)
           /\ handles' = Returned({h}, s, r.kind)
           /\ fault' = fault \cup r.fault
           /\ Log(On(h, Call("Entry::or_insert_with", s, d, slots[s], None, r.kind, r.calls)))
    /\ UNCHANGED tua

\* entry.remove()
Remove(h) ==
    /\ Idle /\ h.kind \in {"EntryOccupied", "EntryVacant"}
    /\ LET s == h.slot
           r == Entry_remove(h.kind, slots[s])
       IN  /\ slots' = Put(s, r.opt)
           /\ handles' = Returned({h}, s, r.kind)
           /\ fault' = fault \cup r.fault
           /\ Log(On(h, Call("Entry::remove", s, None, slots[s], r.item, r.kind, 0)))
    /\ UNCHANGED tua

\* opt.emplace(item)
Emplace(s, item) ==
    /\ Idle /\ Free(s)
    /\ LET r == emplace(slots[s], item)
       IN  /\ slots' = Put(s, r.opt)
           /\ handles' = Returned({}, s, r.kind)
           /\ fault' = fault \cup r.fault
           /\ Log(Call("emplace", s, item, slots[s], None, r.kind, 0))
    /\ UNCHANGED tua

\* opt.get_or_emplace(item)
GetOrEmplace(s, item) ==
    /\ Idle /\ Free(s)
    /\ LET r == get_or_emplace(slots[s], item)
       IN  /\ slots' = Put(s, r.opt)
           /\ handles' = Returned({}, s, r.kind)
           /\ fault' = fault \cup r.fault
           /\ Log(Call("get_or_emplace", s, item, slots[s], None, r.kind, r.calls))
    /\ UNCHANGED tua

\* opt.get_or_emplace_with(|| d)
GetOrEmplaceWith(s, d) ==
    /\ Idle /\ Free(s)
    /\ LET r == get_or_emplace_with(slots[s], d)
       IN  /\ slots' = Put(s, r.opt)
           /\ handles' = Returned({}, s, r.kind)
           /\ fault' = fault \cup r.fault
           /\ Log(Call("get_or_emplace_with", s, d, slots[s], None, r.kind, r.calls))
    /\ UNCHANGED tua

\* (variant: a Drop impl that empties the option the handle borrowed)
DropHandle_taking(h) ==
    /\ Idle
    /\ handles' = handles \ {h}
    /\ slots' = Put(h.slot, None)
    /\ UNCHANGED <<last, chain, tua, fault>>

\* dropping a handle unused: no Drop impl, nothing runs
DropHandle(h) ==
    /\ Idle
    /\ handles' = handles \ {h}
    /\ UNCHANGED <<slots, last, chain, tua, fault>>

\* A store to a slot no handle borrows: by the owner, `opts[3] = Some(4)` (49), or
\* through the plain reference into_inner gave back, `*reference = None` (148),
\* `*reference = Some("goodbye")` (205).
Store(s, x) ==
    /\ Idle /\ Free(s)
    /\ slots' = Put(s, x)
    /\ Log(Call("store", s, x, slots[s], None, "-", 0))
    /\ UNCHANGED <<handles, tua, fault>>

\* ------------------------------ try_unwrap_all, the crate's example (27-42)
\* let [opt1, ..] = options: the whole array is borrowed for the call
TuaStart ==
    /\ Idle /\ \A s \in DOMAIN slots : Free(s)
    /\ tua' = [pc |-> "peek", i |-> 1, snap |-> slots, out |-> <<>>, ok |-> FALSE]
    /\ UNCHANGED <<slots, handles, last, chain, fault>>

\* (variant: each option is taken as soon as it is seen to be Some, and nothing
\* is put back when a later one is None)
TuaPeekTaking ==
    /\ tua.pc = "peek"
    /\ LET s == tua.i
           r == peek_some(slots[s])
       IN  /\ fault' = fault \cup r.fault
           /\ Log(Call("peek_some", s, None, slots[s], None, r.kind, 0))
           /\ handles' = {}
           /\ IF r.kind = "None"
              THEN /\ slots' = slots
                   /\ tua' = [tua EXCEPT !.pc = "done", !.ok = FALSE]
              ELSE /\ slots' = Put(s, None)
                   /\ tua' = IF s = NOpts
                             THEN [tua EXCEPT !.pc = "done", !.ok = TRUE,
                                              !.out = Append(@, slots[s])]
                             ELSE [tua EXCEPT !.i = s + 1, !.out = Append(@, slots[s])]

\* confirmed = [opt1.peek_some()?, ..]: one element per step; `?` returns None
\* and drops the handles confirmed so far
TuaPeek ==
    /\ tua.pc = "peek"
    /\ LET s == tua.i
           r == peek_some(slots[s])
       IN  /\ fault' = fault \cup r.fault
           /\ Log(Call("peek_some", s, None, slots[s], None, r.kind, 0))
           /\ IF r.kind = "None"
              THEN /\ handles' = {}
                   /\ tua' = [tua EXCEPT !.pc = "done", !.ok = FALSE]
              ELSE /\ handles' = Returned({}, s, r.kind)
                   /\ tua' = IF s = NOpts
                             THEN [tua EXCEPT !.pc = "take", !.i = 1]
                             ELSE [tua EXCEPT !.i = s + 1]
    /\ UNCHANGED slots

\* Some(confirmed.map(|item| item.take())): one element per step
TuaTake(u) ==
    /\ tua.pc = "take"
    /\ LET s == tua.i
           r == Occupied_take(slots[s], u)
       IN  /\ slots' = Put(s, r.opt)
           /\ handles' = handles \ {Handle(s, "Occupied")}
           /\ fault' = fault \cup r.fault
           /\ Log(Call("Occupied::take", s, None, slots[s], r.item, "-", 0))
           /\ tua' = IF s = NOpts
                     THEN [tua EXCEPT !.pc = "done", !.ok = TRUE,
                                      !.out = Append(@, r.item)]
                     ELSE [tua EXCEPT !.i = s + 1, !.out = Append(@, r.item)]

\* the caller has the result; the borrow of the array ends
TuaReturn ==
    /\ tua.pc = "done"
    /\ tua' = TuaIdle
    /\ UNCHANGED <<slots, handles, last, chain, fault>>

\* What a method of an Entry may draw: its Occupied arm unwraps unchecked, its
\* Vacant arm writes unchecked.
GarbageFor(h) ==
    IF h.kind = "EntryOccupied" THEN GarbageIfNone(slots[h.slot])
                                ELSE GarbageIfSome(slots[h.slot])

\* The live handles of each type: a method is callable on its own type only.
Occupieds == {h \in handles : h.kind = "Occupied"}
Vacants == {h \in handles : h.kind = "Vacant"}
Entries == {h \in handles : h.kind \in {"EntryOccupied", "EntryVacant"}}

Next ==
    \/ \E s \in Slots : Examine(s)
    \/ \E s \in Slots : PeekSome(s)
    \/ \E s \in Slots : PeekEmpty(s)
    \/ \E h \in Entries : MatchEntry(h)
    \/ \E h \in Occupieds : \E u \in GarbageIfNone(slots[h.slot]) : Get(h, u)
    \/ \E h \in Occupieds, w \in Values : \E u \in GarbageIfNone(slots[h.slot]) : GetMut(h, w, u)
    \/ \E h \in handles : IntoInner(h)
    \/ \E h \in Occupieds : \E u \in GarbageIfNone(slots[h.slot]) : IntoMut(h, u)
    \/ \E h \in Occupieds, w \in Values : \E u \in GarbageIfNone(slots[h.slot]) : IntoMutStore(h, w, u)
    \/ \E h \in Occupieds : \E u \in GarbageIfNone(slots[h.slot]) : Take(h, u)
    \/ \E h \in Occupieds : \E u \in GarbageIfNone(slots[h.slot]) : Extract(h, u)
    \/ \E h \in Vacants, v \in Values : \E u \in GarbageIfSome(slots[h.slot]) : Insert(h, v, u)
    \/ \E h \in Entries, f \in Fns : \E u \in GarbageFor(h) : AndModify(h, f, u)
    \/ \E h \in Entries, d \in Values : \E u \in GarbageFor(h) : OrInsert(h, d, u)
    \/ \E h \in Entries, d \in Values : \E u \in GarbageFor(h) : OrInsertWith(h, d, u)
    \/ \E h \in Entries : Remove(h)
    \/ \E s \in Slots, v \in Values : Emplace(s, v)
    \/ \E s \in Slots, v \in Values : GetOrEmplace(s, v)
    \/ \E s \in Slots, d \in Values : GetOrEmplaceWith(s, d)
    \/ \E h \in handles : DropHandle(h)
    \/ \E s \in Slots, x \in Opt : Store(s, x)

Spec == Init /\ [][Next]_vars

\* The example's program: an array of four options, try_unwrap_all called on
\* it, and the owner's assignments between calls.
InitUnwrap ==
    /\ slots \in [1..NOpts -> Opt]
    /\ handles = {}
    /\ last = NoCall
    /\ chain = NoChain
    /\ tua = TuaIdle
    /\ fault = {}

NextUnwrap ==
    \/ TuaStart
    \/ TuaPeek
    \/ \E u \in GarbageIfNone(slots[tua.i]) : TuaTake(u)
    \/ TuaReturn
    \/ \E s \in 1..NOpts, x \in Opt : Store(s, x)

SpecUnwrap == InitUnwrap /\ [][NextUnwrap]_vars

\* ------------------------------------------------------------ properties
IsOccupied(h) == h.kind \in {"Occupied", "EntryOccupied"}
IsVacant(h) == h.kind \in {"Vacant", "EntryVacant"}
\* what a live Occupied over slot s reads
Reads(s) == Occupied_get(slots[s], None).val

\* C1: every live Occupied handle (bare or inside an Entry) refers to a slot
\* that holds a value, every live Vacant handle to a slot that is empty, and no
\* debug_assert! has failed nor has any unchecked operation met the state it
\* assumes away (the Some(_) arm of Vacant::insert included).
C1_HandlesMatchSlots ==
    /\ \A h \in handles : /\ IsOccupied(h) => is_some(slots[h.slot])
                          /\ IsVacant(h) => is_none(slots[h.slot])
    /\ fault = {}

\* an extract has just turned an Occupied into a Vacant while another slot is
\* still borrowed by an Occupied
C1_Witness ==
    /\ last.op = "Occupied::extract"
    /\ Handle(last.slot, "Vacant") \in handles
    /\ \E h \in handles : h.kind = "Occupied" /\ h.slot # last.slot

\* C2: examine / entry returns Entry::Occupied exactly when the slot holds a
\* value, Entry::Vacant exactly when it is empty, and leaves the slot's
\* contents as they were.
C2_ExamineClassifies ==
    last.op = "examine" =>
        /\ last.kind = "EntryOccupied" <=> is_some(last.pre)
        /\ last.kind = "EntryVacant" <=> is_none(last.pre)
        /\ slots[last.slot] = last.pre

\* an empty slot has just been classified while the Entry of an occupied one
\* is still live
C2_Witness ==
    /\ last.op = "examine" /\ last.kind = "EntryVacant"
    /\ Handle(last.slot, "EntryVacant") \in handles
    /\ \E h \in handles : h.kind = "EntryOccupied"

\* C3: Vacant::insert(v) followed by Occupied::take() on the handle it
\* returned gives back exactly v and leaves the slot empty.
C3_InsertTakeRoundTrip ==
    chain.seq = "insert_take" =>
        /\ last.ret = chain.arg
        /\ is_none(slots[last.slot])

C3_Witness ==
    /\ chain.seq = "insert_take"
    /\ chain.arg = MaxVal
    /\ last.op = "Occupied::take" /\ last.ret = MaxVal

\* C4: try_unwrap_all is all-or-nothing.  While it is still confirming, no slot
\* has changed; when it returns, either some slot was empty, the result is None
\* and every slot holds what it held at the call, or every slot was occupied,
\* the result is the values in slot order and every slot is empty.
C4_AllOrNothing ==
    /\ tua.pc = "peek" => slots = tua.snap
    /\ tua.pc = "done" =>
         IF \E s \in 1..NOpts : is_none(tua.snap[s])
         THEN /\ ~tua.ok
              /\ slots = tua.snap
         ELSE /\ tua.ok
              /\ Len(tua.out) = NOpts
              /\ \A s \in 1..NOpts : tua.out[s] = tua.snap[s]
              /\ \A s \in 1..NOpts : is_none(slots[s])

\* the example's first call: three occupied slots, then an empty one
C4_Witness ==
    /\ tua.pc = "done" /\ ~tua.ok
    /\ \A s \in 1..(NOpts - 1) : is_some(tua.snap[s])
    /\ is_none(tua.snap[NOpts])
    /\ slots = tua.snap

\* C5: Entry::or_insert_with (and or_insert, which passes `|| default`) invokes
\* the producer exactly once on a Vacant entry and not at all on an Occupied
\* one; afterwards the slot is occupied and the returned Occupied reads the
\* value that was there (Occupied) or the produced one (Vacant).
C5_OrInsertWith ==
    last.op \in {"Entry::or_insert_with", "Entry::or_insert"} =>
        /\ last.calls = (IF last.self = "EntryVacant" THEN 1 ELSE 0)
        /\ last.kind = "Occupied"
        /\ is_some(slots[last.slot])
        /\ Reads(last.slot) = (IF last.self = "EntryVacant" THEN last.arg ELSE last.pre)

\* the lazy path: an occupied entry, a producer of a different value, not called
C5_Witness ==
    /\ last.op = "Entry::or_insert_with"
    /\ last.self = "EntryOccupied"
    /\ last.arg # last.pre
    /\ last.calls = 0

\* C6: Entry::and_modify(f) invokes f, once, on the contained value exactly
\* when the entry is Occupied; the Entry returned has the variant of the one
\* given and the slot is occupied after the call iff it was before; on a
\* Vacant entry f is not called and the slot stays empty.
C6_AndModify ==
    last.op = "Entry::and_modify" =>
        /\ last.calls = (IF last.self = "EntryOccupied" THEN 1 ELSE 0)
        /\ last.kind = last.self
        /\ is_some(slots[last.slot]) <=> is_some(last.pre)
        /\ last.self = "EntryOccupied" => slots[last.slot] = last.fn[last.pre]
        /\ last.self = "EntryVacant" => is_none(slots[last.slot])

\* f has changed the value in place
C6_Witness ==
    /\ last.op = "Entry::and_modify"
    /\ last.self = "EntryOccupied"
    /\ last.calls = 1
    /\ slots[last.slot] # last.pre

\* C7: Entry::remove() returns the Option the slot held (Some(v) of an
\* Occupied entry, None of a Vacant one) with a Vacant handle over the same
\* slot, and the slot is empty afterwards.
C7_Remove ==
    last.op = "Entry::remove" =>
        /\ last.ret = last.pre
        /\ last.self = "EntryOccupied" <=> is_some(last.ret)
        /\ last.kind = "Vacant"
        /\ is_none(slots[last.slot])

C7_Witness ==
    /\ last.op = "Entry::remove"
    /\ last.self = "EntryOccupied"
    /\ last.ret = MaxVal
    /\ Handle(last.slot, "Vacant") \in handles

\* C8: get_or_emplace / get_or_emplace_with write only into an empty slot: an
\* empty slot then holds the value given (producer called once), a slot that
\* held w still holds w, the handle reads w and the producer was not called;
\* and of two get_or_emplace calls in a row on a slot that was empty, the
\* first one's value stays.
C8_GetOrEmplace ==
    /\ last.op \in {"get_or_emplace", "get_or_emplace_with"} =>
         /\ last.kind = "Occupied"
         /\ IF is_none(last.pre)
            THEN slots[last.slot] = last.arg /\ last.calls = 1
            ELSE slots[last.slot] = last.pre /\ last.calls = 0
         /\ Reads(last.slot) = slots[last.slot]
    /\ (chain.seq = "get_or_emplace_twice" /\ is_none(chain.pre)) =>
         Reads(last.slot) = chain.arg

\* the scenario: empty, get_or_emplace(a), get_or_emplace(b) with b # a
C8_Witness ==
    /\ chain.seq = "get_or_emplace_twice"
    /\ is_none(chain.pre)
    /\ last.arg # chain.arg
    /\ slots[last.slot] = chain.arg

\* C9: peek_some / Occupied::new gives a handle exactly when the slot holds a
\* value, peek_empty / Vacant::new exactly when it is empty; on every slot
\* exactly one of the two succeeds; and the slot is unchanged by the call.
C9_Peek ==
    /\ last.op = "peek_some" =>
         /\ last.kind = (IF is_some(last.pre) THEN "Occupied" ELSE "None")
         /\ slots[last.slot] = last.pre
    /\ last.op = "peek_empty" =>
         /\ last.kind = (IF is_none(last.pre) THEN "Vacant" ELSE "None")
         /\ slots[last.slot] = last.pre
    /\ \A s \in DOMAIN slots :
         (peek_some(slots[s]).kind = "None") # (peek_empty(slots[s]).kind = "None")

\* peek_empty has just been refused on an occupied slot
C9_Witness ==
    /\ last.op = "peek_empty"
    /\ last.kind = "None"
    /\ is_some(slots[last.slot])
    /\ Free(last.slot)

\* C10: emplace(v) overwrites whatever the slot held: afterwards the slot
\* holds v and the returned Occupied reads v.
C10_Emplace ==
    last.op = "emplace" =>
        /\ slots[last.slot] = last.arg
        /\ last.kind = "Occupied"
        /\ Reads(last.slot) = last.arg

\* a different value was overwritten
C10_Witness ==
    /\ last.op = "emplace"
    /\ is_some(last.pre)
    /\ last.pre # last.arg
    /\ Handle(last.slot, "Occupied") \in handles

\* The calls by what they may do to the option.
KeepOccupancy == {"Occupied::get", "Occupied::get_mut", "Occupied::into_mut",
                  "Entry::and_modify", "Occupied::into_inner",
                  "Vacant::into_inner", "Entry::into_inner"}
KeepValue == {"Occupied::get", "Occupied::into_inner", "Vacant::into_inner",
              "Entry::into_inner"}
Fill == {"Vacant::insert", "emplace", "get_or_emplace", "get_or_emplace_with",
         "Entry::or_insert", "Entry::or_insert_with"}
Empty == {"Occupied::take", "Occupied::extract", "Entry::remove"}

\* C11: in every step, get, get_mut, into_mut, and_modify and into_inner leave
\* every option as occupied or as empty as it was, and get and into_inner leave
\* its value as it was; a step that drops a handle unused changes no option; an
\* option goes from empty to occupied only in an insert, emplace,
\* get_or_emplace(_with) or or_insert(_with) on it, and from occupied to empty
\* only in a take, extract or remove on it (the caller's own assignment to an
\* option no handle borrows, which is no call of the library, aside).
C11_OccupancyChanges ==
    [][\A t \in DOMAIN slots :
         /\ last'.op \in KeepOccupancy => is_some(slots'[t]) = is_some(slots[t])
         /\ last'.op \in KeepValue => slots'[t] = slots[t]
         /\ (handles' # handles /\ last' = last /\ last.op # "none"
               /\ handles' \subseteq handles) => slots'[t] = slots[t]
         /\ (is_none(slots[t]) /\ is_some(slots'[t])) =>
               (last'.op \in Fill \cup {"store"} /\ last'.slot = t)
         /\ (is_some(slots[t]) /\ is_none(slots'[t])) =>
               (last'.op \in Empty \cup {"store"} /\ last'.slot = t)
      ]_vars

\* and_modify has changed the value of an option and left it occupied
C11_Witness ==
    /\ last.op = "Entry::and_modify"
    /\ is_some(last.pre) /\ is_some(slots[last.slot])
    /\ slots[last.slot] # last.pre
    /\ \E h \in handles : h.slot # last.slot

\* C12: Occupied::take() is Occupied::extract() with the Vacant handle
\* discarded: on every option a live Occupied borrows the two give the same
\* item and leave the same (empty) option, and what each call did return and
\* leave is what the other would have on the option it found.
C12_TakeIsExtract ==
    /\ \A h \in handles : h.kind = "Occupied" =>
         LET t == Occupied_take(slots[h.slot], None)
             e == Occupied_extract(slots[h.slot], None)
         IN  /\ t.item = e.item
             /\ t.opt = e.opt
             /\ is_none(t.opt)
             /\ t.fault = {} /\ e.fault = {}
    /\ last.op = "Occupied::take" =>
         LET e == Occupied_extract(last.pre, None)
         IN  last.ret = e.item /\ slots[last.slot] = e.opt
    /\ last.op = "Occupied::extract" =>
         LET t == Occupied_take(last.pre, None)
         IN  last.ret = t.item /\ slots[last.slot] = t.opt

\* one option has just been taken from while an Occupied over another, on
\* which both could be called, is live
C12_Witness ==
    /\ last.op = "Occupied::take"
    /\ is_some(last.ret)
    /\ \E h \in handles : h.kind = "Occupied" /\ slots[h.slot] # last.ret

\* C13: Occupied::extract() on an option holding v returns v with a Vacant
\* over the same, now empty, option; and an insert(w) on that Vacant, with no
\* classification in between, leaves the option holding w and returns an
\* Occupied that reads w.
C13_ExtractThenInsert ==
    /\ last.op = "Occupied::extract" =>
         /\ is_some(last.pre) /\ last.ret = last.pre
         /\ last.kind = "Vacant"
         /\ is_none(slots[last.slot])
    /\ chain.seq = "extract_insert" =>
         /\ last.self = "Vacant"
         /\ is_some(chain.pre) /\ is_none(last.pre)
         /\ slots[last.slot] = last.arg
         /\ last.kind = "Occupied"
         /\ Reads(last.slot) = last.arg
         /\ fault = {}

\* a value other than the extracted one was inserted through the Vacant
C13_Witness ==
    /\ chain.seq = "extract_insert"
    /\ last.op = "Vacant::insert"
    /\ last.arg # chain.pre
    /\ Handle(last.slot, "Occupied") \in handles

\* C14: no option is borrowed by two live handles (Occupied, Vacant or Entry)
\* at once; into_inner and into_mut consume the handle, so the plain reference
\* they give back is alone on its option; and a call that turns one handle
\* type into another leaves no handle of the type it was called on.
C14_OneHandlePerSlot ==
    /\ \A h1, h2 \in handles : h1.slot = h2.slot => h1 = h2
    /\ last.op \in {"Occupied::into_inner", "Vacant::into_inner",
                    "Entry::into_inner", "Occupied::into_mut", "Occupied::take"}
         => Free(last.slot)
    /\ (last.self # "-" /\ last.kind # last.self
          /\ last.kind \in {"Occupied", "Vacant", "EntryOccupied", "EntryVacant"})
         => Handle(last.slot, last.self) \notin handles

\* a Vacant was downgraded to a plain reference while another option is
\* still borrowed by a handle
C14_Witness ==
    /\ last.op = "Vacant::into_inner"
    /\ Free(last.slot)
    /\ \E h \in handles : h.slot # last.slot

\* The calls in which the library itself constructs a handle with
\* new_unchecked.
Constructing == {"examine", "peek_some", "peek_empty", "Occupied::extract",
                 "Entry::remove", "Vacant::insert", "Entry::or_insert",
                 "Entry::or_insert_with", "emplace", "get_or_emplace",
                 "get_or_emplace_with"}

\* C15: no call of Occupied::new_unchecked or Vacant::new_unchecked made by
\* the library (in examine, extract, remove, insert, emplace,
\* get_or_emplace_with) has met an option in the wrong state: none has failed
\* its debug_assert!, the handle each such call returned has the type the
\* option's contents call for, and on whatever an option holds the
\* constructions in examine, remove, emplace and get_or_emplace_with are sound.
C15_UncheckedConstructorsSound ==
    /\ fault \cap {"Occupied::new_unchecked", "Vacant::new_unchecked"} = {}
    /\ last.op \in Constructing =>
         /\ last.kind \in {"Occupied", "EntryOccupied"} => is_some(slots[last.slot])
         /\ last.kind \in {"Vacant", "EntryVacant"} => is_none(slots[last.slot])
    /\ \A s \in DOMAIN slots :
         /\ examine(slots[s]).fault = {}
         /\ \A k \in {"EntryOccupied", "EntryVacant"} :
              Entry_remove(k, slots[s]).fault = {}
         /\ \A v \in Values : /\ emplace(slots[s], v).fault = {}
                              /\ get_or_emplace_with(slots[s], v).fault = {}

\* remove on a Vacant entry: Vacant::new_unchecked over an option that was
\* empty already
C15_Witness ==
    /\ last.op = "Entry::remove"
    /\ last.self = "EntryVacant"
    /\ last.kind = "Vacant"
    /\ Handle(last.slot, "Vacant") \in handles
    /\ fault = {}

\* C16: a handle reads and writes the option itself.  get returns exactly the
\* value the option holds; a value stored through get_mut / as_mut, through
\* the reference into_mut gives, or by and_modify's closure is the value the
\* option holds afterwards; and the get or the take that follows a get_mut
\* store on the same handle returns the value stored.
C16_NoCopy ==
    /\ last.op = "Occupied::get" =>
         last.ret = last.pre /\ last.ret = slots[last.slot]
    /\ last.op = "Occupied::get_mut" => slots[last.slot] = last.arg
    /\ (last.op = "Occupied::into_mut" /\ is_some(last.arg)) =>
         slots[last.slot] = last.arg
    /\ (last.op = "Entry::and_modify" /\ last.self = "EntryOccupied") =>
         slots[last.slot] = last.fn[last.pre]
    /\ chain.seq \in {"get_mut_get", "get_mut_take"} => last.ret = chain.arg
    /\ \A h \in handles : IsOccupied(h) => Reads(h.slot) = slots[h.slot]

\* a take has returned the value a get_mut store had put over another one
C16_Witness ==
    /\ chain.seq = "get_mut_take"
    /\ chain.arg # chain.pre
    /\ last.ret = chain.arg
    /\ is_none(slots[last.slot])

\* the outcome of a conditional insert: the option left, the handle type
\* returned, the value it reads and the number of producer calls
Outcome(r) == <<r.opt, r.kind, Occupied_get(r.opt, None).val, r.calls>>

\* C17: the two conditional inserts agree.  On whatever an option holds and
\* for every produced value d, opt.get_or_emplace_with(|| d) and
\* opt.entry().or_insert_with(|| d) leave the same option, return an Occupied
\* reading the same value and call the producer equally often; or_insert(d)
\* agrees with or_insert_with(|| d) and get_or_emplace(d) with
\* get_or_emplace_with(|| d); and each such call made left what its
\* counterpart would have.
C17_ConditionalInsertsAgree ==
    /\ \A s \in DOMAIN slots : \A d \in Values :
         LET o == slots[s]
             k == entry(o).kind
         IN  /\ Outcome(get_or_emplace_with(o, d))
                  = Outcome(Entry_or_insert_with(k, o, d, None))
             /\ Outcome(Entry_or_insert(k, o, d, None))
                  = Outcome(Entry_or_insert_with(k, o, d, None))
             /\ Outcome(get_or_emplace(o, d)) = Outcome(get_or_emplace_with(o, d))
             /\ Entry_or_insert_with(k, o, d, None).fault = {}
             /\ get_or_emplace_with(o, d).fault = {}
    /\ last.op \in {"get_or_emplace_with", "get_or_emplace"} =>
         <<slots[last.slot], last.kind, Reads(last.slot), last.calls>>
           = Outcome(Entry_or_insert_with(entry(last.pre).kind, last.pre, last.arg, None))
    /\ last.op \in {"Entry::or_insert_with", "Entry::or_insert"} =>
         <<slots[last.slot], last.kind, Reads(last.slot), last.calls>>
           = Outcome(get_or_emplace_with(last.pre, last.arg))

\* or_insert on a Vacant entry stored its default, as get_or_emplace_with
\* would have
C17_Witness ==
    /\ last.op = "Entry::or_insert"
    /\ last.self = "EntryVacant"
    /\ last.calls = 1
    /\ slots[last.slot] = get_or_emplace_with(last.pre, last.arg).opt
    /\ slots[last.slot] = MaxVal

\* C18: on an Occupied entry Entry::remove() agrees with Occupied::extract():
\* the same value (remove's wrapped in Some), the same empty option and a
\* Vacant over it, both on every option a live Occupied entry borrows and in
\* every remove made on one.
C18_RemoveIsExtract ==
    /\ \A h \in handles : h.kind = "EntryOccupied" =>
         LET r == Entry_remove(h.kind, slots[h.slot])
             e == Occupied_extract(slots[h.slot], None)
         IN  /\ is_some(r.item) /\ r.item = e.item
             /\ r.opt = e.opt /\ is_none(r.opt)
             /\ r.kind = e.kind /\ r.kind = "Vacant"
             /\ r.fault = {} /\ e.fault = {}
    /\ (last.op = "Entry::remove" /\ last.self = "EntryOccupied") =>
         LET e == Occupied_extract(last.pre, None)
         IN  /\ last.ret = e.item
             /\ slots[last.slot] = e.opt
             /\ last.kind = e.kind

\* a remove on an Occupied entry, with the Occupied entry of another option
\* still live
C18_Witness ==
    /\ last.op = "Entry::remove"
    /\ last.self = "EntryOccupied"
    /\ is_some(last.ret)
    /\ \E h \in handles : h.kind = "EntryOccupied" /\ h.slot # last.slot

\* C19: Vacant::insert(v) writes without testing the option, and wherever it
\* can be called that is what the checked Option::insert would do: the option
\* afterwards holds v, and nothing was stored there before, so no value is
\* overwritten or lost and the unreachable Some(_) arm is not taken.
C19_InsertIsCheckedSet ==
    /\ \A h \in handles : h.kind = "Vacant" => \A v \in Values :
         LET i == Vacant_insert(slots[h.slot], v, None)
             c == Option_insert(slots[h.slot], v)
         IN  /\ i.opt = c.opt /\ i.opt = v
             /\ is_none(c.dropped)
             /\ i.fault = {}
    /\ last.op = "Vacant::insert" =>
         LET c == Option_insert(last.pre, last.arg)
         IN  /\ slots[last.slot] = c.opt
             /\ is_none(c.dropped)
             /\ "unreachable_unchecked" \notin fault

\* an insert through a Vacant that peek_empty or an Entry gave
C19_Witness ==
    /\ last.op = "Vacant::insert"
    /\ chain.seq = "none"
    /\ slots[last.slot] = last.arg
    /\ is_none(last.pre)
    /\ \E h \in handles : h.kind = "Vacant"
====
